---- MODULE Spec2Model ----
(***************************************************************************)
(* TradingSystem of src/t0code.py: the indicator engine                    *)
(* (calculate_indicators), the signal generator (generate_daily_signal),   *)
(* the position tracker (execute_trade) and the daily cycle                *)
(* (run_daily_strategy).                                                   *)
(*                                                                         *)
(* Floating-point values are modelled as exact fractions num/den kept in   *)
(* lowest terms, with den = 0 for the three special values: 0/0 is NaN,    *)
(* 1/0 is +inf and -1/0 is -inf.  Binary rounding error and the sign of    *)
(* zero are below the resolution of the model.                             *)
(***************************************************************************)
EXTENDS Integers, Sequences, FiniteSets, TLC

VARIABLES
    position,          \* self.position: 0 flat, 1 long
    last_trade_price,  \* self.last_trade_price: None or a float
    trade_log,         \* self.trade_log
    clock,             \* what datetime.now() returns next
    signal,            \* the decision handed to execute_trade / held by run_daily_strategy
    pc,                \* where run_daily_strategy stands
    stock_df,          \* the table run_daily_strategy works on
    raised_at,         \* the step of run_daily_strategy that raised, "" when none did
    printed,           \* the lines the current run_daily_strategy call has printed
    df                 \* the table handed to calculate_indicators

vars == <<position, last_trade_price, trade_log, clock, signal, pc, stock_df,
          raised_at, printed, df>>

(***************************************************************************)
(* Floats                                                                  *)
(***************************************************************************)
Abs(n) == IF n < 0 THEN -n ELSE n

Sign(n) == IF n < 0 THEN -1 ELSE IF n > 0 THEN 1 ELSE 0

RECURSIVE GCD(_, _)
GCD(a, b) == IF b = 0 THEN a ELSE GCD(b, a % b)

\* n/d with d > 0, in lowest terms
Rat(n, d) ==
    LET g == GCD(Abs(n), d)
    IN  [num |-> n \div g, den |-> d \div g]

Num(n) == [num |-> n, den |-> 1]

NaN == [num |-> 0, den |-> 0]

Inf(s) == [num |-> s, den |-> 0]

IsNaN(a) == a.den = 0 /\ a.num = 0

IsInf(a) == a.den = 0 /\ a.num # 0

IsZero(a) == a.den # 0 /\ a.num = 0

Neg(a) == [num |-> -a.num, den |-> a.den]

Add(a, b) ==
    IF IsNaN(a) \/ IsNaN(b) THEN NaN
    ELSE IF IsInf(a) THEN (IF IsInf(b) /\ b.num # a.num THEN NaN ELSE a)
    ELSE IF IsInf(b) THEN b
    ELSE Rat(a.num * b.den + b.num * a.den, a.den * b.den)

Sub(a, b) == Add(a, Neg(b))

\* the products are cancelled crosswise before they are multiplied out
Mul(a, b) ==
    IF IsNaN(a) \/ IsNaN(b) THEN NaN
    ELSE IF IsInf(a) \/ IsInf(b)
         THEN (IF IsZero(a) \/ IsZero(b) THEN NaN ELSE Inf(Sign(a.num) * Sign(b.num)))
    ELSE LET g1 == GCD(Abs(a.num), b.den)
             g2 == GCD(Abs(b.num), a.den)
         IN  Rat((a.num \div g1) * (b.num \div g2), (a.den \div g2) * (b.den \div g1))

\* numpy float division: x/0 is +-inf, 0/0 is NaN, nothing is raised
Div(a, b) ==
    IF IsNaN(a) \/ IsNaN(b) THEN NaN
    ELSE IF IsInf(a) THEN (IF IsInf(b) THEN NaN
                           ELSE Inf(a.num * (IF b.num < 0 THEN -1 ELSE 1)))
    ELSE IF IsInf(b) THEN Num(0)
    ELSE IF b.num = 0 THEN (IF a.num = 0 THEN NaN ELSE Inf(Sign(a.num)))
    ELSE Mul(a, [num |-> b.den * Sign(b.num), den |-> Abs(b.num)])

\* a < b; every comparison with NaN is False
Lt(a, b) ==
    /\ ~IsNaN(a)
    /\ ~IsNaN(b)
    /\ IF IsInf(a) /\ IsInf(b) THEN a.num < b.num
       ELSE a.num * b.den < b.num * a.den

Gt(a, b) == Lt(b, a)

\* Python's min(a, b): b when b < a, else a
PyMin(a, b) == IF Lt(b, a) THEN b ELSE a

\* round(x, 2): to the nearest hundredth, a tie to the even one
Round2(a) ==
    IF a.den = 0 THEN a
    ELSE LET n == a.num * 100
             q == n \div a.den
             r == n % a.den
             up == \/ 2 * r > a.den
                   \/ 2 * r = a.den /\ q % 2 = 1
         IN  Rat(IF up THEN q + 1 ELSE q, 100)

(***************************************************************************)
(* Position tracker                                                        *)
(***************************************************************************)
\* Python's None, and a set value v, of self.last_trade_price
None == <<>>

Some(v) == <<v>>

HasKey(d, k) == k \in DOMAIN d

\* the dict execute_trade appends to self.trade_log
TradeEntry(d, pos) ==
    [datetime |-> clock,
     action   |-> d.action,
     price    |-> IF HasKey(d, "price") THEN Some(d.price) ELSE None,
     position |-> pos]

ExecuteTrade_LogsAfter(d) ==
    /\ clock' = clock + 1
    /\ IF d.action = "buy"
         THEN /\ position' = 1
              /\ last_trade_price' = Some(d.price)
         ELSE IF d.action = "sell"
         THEN /\ position' = 0
              /\ last_trade_price' = None
         ELSE UNCHANGED <<position, last_trade_price>>
    /\ trade_log' = Append(trade_log, TradeEntry(d, position'))

ExecuteTrade_SellKeepsPrice(d) ==
    /\ clock' = clock + 1
    /\ trade_log' = Append(trade_log, TradeEntry(d, position))
    /\ IF d.action = "buy"
         THEN /\ position' = 1
              /\ last_trade_price' = Some(d.price)
         ELSE IF d.action = "sell"
         THEN /\ position' = 0
              /\ UNCHANGED last_trade_price
         ELSE UNCHANGED <<position, last_trade_price>>

ExecuteTrade_SellKeepsPosition(d) ==
    /\ clock' = clock + 1
    /\ trade_log' = Append(trade_log, TradeEntry(d, position))
    /\ IF d.action = "buy"
         THEN /\ position' = 1
              /\ last_trade_price' = Some(d.price)
         ELSE IF d.action = "sell"
         THEN /\ UNCHANGED position
              /\ last_trade_price' = None
         ELSE UNCHANGED <<position, last_trade_price>>

ExecuteTrade_HoldCloses(d) ==
    /\ clock' = clock + 1
    /\ trade_log' = Append(trade_log, TradeEntry(d, position))
    /\ IF d.action = "buy"
         THEN /\ position' = 1
              /\ last_trade_price' = Some(d.price)
         ELSE /\ position' = 0
              /\ last_trade_price' = None

\* execute_trade(signal) for a decision d that carries an action
ExecuteTrade(d) ==
    /\ clock' = clock + 1
    /\ trade_log' = Append(trade_log, TradeEntry(d, position))
    /\ IF d.action = "buy"
         THEN /\ position' = 1
              /\ last_trade_price' = Some(d.price)
         ELSE IF d.action = "sell"
         THEN /\ position' = 0
              /\ last_trade_price' = None
         ELSE UNCHANGED <<position, last_trade_price>>

(***************************************************************************)
(* Signal generator                                                        *)
(***************************************************************************)
TrendUp(latest) == Gt(latest.MA5, latest.MA20) /\ Gt(latest.MA20, latest.MA60)

TrendDown(latest) == Lt(latest.MA5, latest.MA20) /\ Lt(latest.MA20, latest.MA60)

FlatSignal_RoundsEntryFirst(latest) ==
    IF TrendUp(latest) /\ Lt(latest.RSI, Num(70))
    THEN LET entry_price == Round2(PyMin(Mul(latest.close, Rat(995, 1000)), latest.S1))
             stop_loss == Sub(entry_price, Mul(Num(2), latest.ATR))
         IN  [action    |-> "buy",
              price     |-> entry_price,
              stop_loss |-> Round2(stop_loss),
              target    |-> Round2(Add(entry_price, Mul(Num(3), latest.ATR)))]
    ELSE [action    |-> IF TrendUp(latest) THEN "buy" ELSE "sell",
          price     |-> latest.close,
          stop_loss |-> Mul(latest.close, Rat(98, 100)),
          target    |-> Mul(latest.close, Rat(103, 100))]

\* generate_daily_signal while self.position == 0
FlatSignal(latest) ==
    IF TrendUp(latest) /\ Lt(latest.RSI, Num(70))
    THEN LET entry_price == PyMin(Mul(latest.close, Rat(995, 1000)), latest.S1)
             stop_loss == Sub(entry_price, Mul(Num(2), latest.ATR))
         IN  [action    |-> "buy",
              price     |-> Round2(entry_price),
              stop_loss |-> Round2(stop_loss),
              target    |-> Round2(Add(entry_price, Mul(Num(3), latest.ATR)))]
    ELSE [action    |-> IF TrendUp(latest) THEN "buy" ELSE "sell",
          price     |-> latest.close,
          stop_loss |-> Mul(latest.close, Rat(98, 100)),
          target    |-> Mul(latest.close, Rat(103, 100))]

CurrentReturn(latest, ltp) == Div(Sub(latest.close, ltp[1]), ltp[1])

LongSignal_StopLossFirst(latest, ltp) ==
    LET current_return == CurrentReturn(latest, ltp)
    IN  IF Lt(current_return, Rat(-2, 100))
        THEN [action |-> "sell",
              price  |-> Mul(latest.close, Rat(995, 1000)),
              reason |-> "stop-loss"]
        ELSE IF Gt(current_return, Rat(3, 100)) \/ Gt(latest.RSI, Num(70))
        THEN [action |-> "sell",
              price  |-> Mul(latest.close, Rat(1005, 1000)),
              reason |-> "take-profit/overbought"]
        ELSE [action |-> "hold",
              price  |-> latest.close,
              reason |-> "hold position"]

LongSignal_AddsToPosition(latest, ltp) ==
    LET current_return == CurrentReturn(latest, ltp)
    IN  IF Gt(current_return, Rat(3, 100)) \/ Gt(latest.RSI, Num(70))
        THEN [action |-> "sell",
              price  |-> Mul(latest.close, Rat(1005, 1000)),
              reason |-> "take-profit/overbought"]
        ELSE IF Lt(current_return, Rat(-2, 100))
        THEN [action |-> "sell",
              price  |-> Mul(latest.close, Rat(995, 1000)),
              reason |-> "stop-loss"]
        ELSE [action |-> IF TrendUp(latest) THEN "buy" ELSE "hold",
              price  |-> latest.close,
              reason |-> "hold position"]

\* generate_daily_signal while self.position != 0
LongSignal(latest, ltp) ==
    LET current_return == CurrentReturn(latest, ltp)
    IN  IF Gt(current_return, Rat(3, 100)) \/ Gt(latest.RSI, Num(70))
        THEN [action |-> "sell",
              price  |-> Mul(latest.close, Rat(1005, 1000)),
              reason |-> "take-profit/overbought"]
        ELSE IF Lt(current_return, Rat(-2, 100))
        THEN [action |-> "sell",
              price  |-> Mul(latest.close, Rat(995, 1000)),
              reason |-> "stop-loss"]
        ELSE [action |-> "hold",
              price  |-> latest.close,
              reason |-> "hold position"]

\* generate_daily_signal, from the last row of the table and the position state;
\* trend_down and atr_factor are computed and never read
GenerateDailySignal(latest, pos, ltp) ==
    LET trend_down == TrendDown(latest)
        atr_factor == Div(latest.ATR, latest.close)
    IN  IF pos = 0 THEN FlatSignal(latest) ELSE LongSignal(latest, ltp)

(***************************************************************************)
(* Indicator engine                                                        *)
(***************************************************************************)
RECURSIVE SumCol(_, _, _, _)
\* the sum of column c of rows lo..hi of table t
SumCol(t, c, lo, hi) ==
    IF lo > hi THEN Num(0) ELSE Add(SumCol(t, c, lo, hi - 1), t[hi][c])

RECURSIVE MaxCol(_, _, _, _)
MaxCol(t, c, lo, hi) ==
    IF lo = hi THEN t[hi][c]
    ELSE LET m == MaxCol(t, c, lo, hi - 1)
         IN  IF Gt(t[hi][c], m) THEN t[hi][c] ELSE m

RECURSIVE MinCol(_, _, _, _)
MinCol(t, c, lo, hi) ==
    IF lo = hi THEN t[hi][c]
    ELSE LET m == MinCol(t, c, lo, hi - 1)
         IN  IF Lt(t[hi][c], m) THEN t[hi][c] ELSE m

\* df[c].rolling(k).mean() at row i: NaN until k rows are there
RollingMean(t, c, k, i) ==
    IF i < k THEN NaN ELSE Div(SumCol(t, c, i - k + 1, i), Num(k))

RollingMax(t, c, k, i) == IF i < k THEN NaN ELSE MaxCol(t, c, i - k + 1, i)

RollingMin(t, c, k, i) == IF i < k THEN NaN ELSE MinCol(t, c, i - k + 1, i)

\* df['close'].diff() at row i
Delta(t, i) == IF i = 1 THEN NaN ELSE Sub(t[i].close, t[i - 1].close)

\* delta.where(delta > 0, 0) at row i
Gain(t, i) == IF Gt(Delta(t, i), Num(0)) THEN Delta(t, i) ELSE Num(0)

\* -delta.where(delta < 0, 0) at row i
Loss(t, i) == Neg(IF Lt(Delta(t, i), Num(0)) THEN Delta(t, i) ELSE Num(0))

RECURSIVE EwmSum(_, _)
\* the weighted sum of x[1..i], x[j] weighing (1 - alpha)^(i - j), alpha = 1/14
EwmSum(x, i) ==
    IF i = 1 THEN x[1]
    ELSE Add(Mul(Rat(13, 14), EwmSum(x, i - 1)), x[i])

RECURSIVE EwmWeight(_)
\* the sum of those weights
EwmWeight(i) ==
    IF i = 1 THEN Num(1) ELSE Add(Mul(Rat(13, 14), EwmWeight(i - 1)), Num(1))

\* x.ewm(alpha=1/14).mean() at row i
EwmMean(x, i) == Div(EwmSum(x, i), EwmWeight(i))

AvgGain(t, i) == EwmMean([j \in 1..Len(t) |-> Gain(t, j)], i)

AvgLoss(t, i) == EwmMean([j \in 1..Len(t) |-> Loss(t, j)], i)

\* 100 - 100 / (1 + avg_gain / avg_loss) at row i
RSI(t, i) ==
    Sub(Num(100), Div(Num(100), Add(Num(1), Div(AvgGain(t, i), AvgLoss(t, i)))))

Pivot(bar) == Div(Add(Add(bar.high, bar.low), bar.close), Num(3))

S1(bar) == Sub(Mul(Num(2), Pivot(bar)), bar.high)

R1(bar) == Sub(Mul(Num(2), Pivot(bar)), bar.low)

\* calculate_indicators(df): the table with the derived columns added
CalculateIndicators(t) ==
    [i \in 1..Len(t) |->
        [high  |-> t[i].high,
         low   |-> t[i].low,
         close |-> t[i].close,
         MA5   |-> RollingMean(t, "close", 5, i),
         MA20  |-> RollingMean(t, "close", 20, i),
         MA60  |-> RollingMean(t, "close", 60, i),
         ATR   |-> Sub(RollingMax(t, "high", 14, i), RollingMin(t, "low", 14, i)),
         RSI   |-> RSI(t, i),
         Pivot |-> Pivot(t[i]),
         S1    |-> S1(t[i]),
         R1    |-> R1(t[i])]]

(***************************************************************************)
(* Inputs                                                                  *)
(***************************************************************************)
MaxCycles == 3

MaxCalls == 4

MaxBars == 5

\* a price given in hundredths
Cents(n) == Rat(n, 100)

Bar(h, l, c) == [high |-> Cents(h), low |-> Cents(l), close |-> Cents(c)]

\* the last bar of a fetched table
LatestBars ==
    { Bar(1020, 980, 1000), Bar(1000, 1000, 1000), Bar(1021, 980, 1000),
      Bar(1040, 1030, 1035), Bar(980, 970, 975), Bar(985, 975, 980) }

\* The rolling and smoothed columns of the last row are functions of up to 60
\* earlier bars.  The tables of the cycle hold the last bar only, and these
\* columns are drawn from the values calculate_indicators can give them: all
\* defined after 60 bars, MA60 missing before, every rolling column missing
\* before 5 bars, and RSI missing while no close has moved.
Window(ma5, ma20, ma60, atr, rsi) ==
    [MA5 |-> ma5, MA20 |-> ma20, MA60 |-> ma60, ATR |-> atr, RSI |-> rsi]

Windows ==
    { Window(Cents(1050), Cents(1000), Cents(950), Cents(50), Num(50)),
      Window(Cents(1050), Cents(1000), Cents(950), Rat(502, 1000), Num(50)),
      Window(Cents(1050), Cents(1000), Cents(950), Cents(50), Num(70)),
      Window(Cents(1050), Cents(1000), Cents(950), Cents(41), Num(85)),
      Window(Cents(950), Cents(1000), Cents(1050), Cents(50), Num(30)),
      Window(Cents(1000), Cents(1000), Cents(950), Cents(50), Num(50)),
      Window(Cents(1050), Cents(1000), NaN, Cents(50), Num(50)),
      Window(NaN, NaN, NaN, NaN, Num(100)),
      Window(NaN, NaN, NaN, NaN, NaN) }

\* the decisions handed to execute_trade directly
TradePrices == { Cents(980), Cents(1035) }

Decisions ==
    { [action |-> a, price |-> p] : a \in {"buy", "sell", "hold"}, p \in TradePrices }

\* the bars of the tables handed to calculate_indicators directly
BarPrices == { Num(9), Num(10), Num(11) }

\* each close with a bar that did not move and with one that spanned the range
Bars ==
    { [high |-> c, low |-> c, close |-> c] : c \in BarPrices }
        \cup { [high |-> Num(11), low |-> Num(9), close |-> c] : c \in BarPrices }

RECURSIVE Tables(_)
\* the tables of exactly n bars
Tables(n) ==
    IF n = 0 THEN { <<>> }
    ELSE { Append(t, b) : t \in Tables(n - 1), b \in Bars }

(***************************************************************************)
(* The daily cycle                                                         *)
(***************************************************************************)
NoSignal == <<>>

Init ==
    /\ position = 0
    /\ last_trade_price = None
    /\ trade_log = <<>>
    /\ clock = 0
    /\ signal = NoSignal
    /\ pc = "idle"
    /\ stock_df = <<>>
    /\ raised_at = ""
    /\ printed = <<>>
    /\ df = <<>>

self == <<position, last_trade_price, trade_log, clock>>

\* get_trade_data raises: the provider is unreachable or answers garbage
FetchFails ==
    /\ pc = "idle"
    /\ Len(trade_log) < MaxCycles
    /\ pc' = "except"
    /\ raised_at' = "fetch"
    /\ UNCHANGED <<self, signal, stock_df, printed, df>>

\* get_trade_data returns a table, which may hold no row
Fetch ==
    /\ pc = "idle"
    /\ Len(trade_log) < MaxCycles
    /\ \E t \in {<<>>} \cup { <<b>> : b \in LatestBars } : stock_df' = t
    /\ pc' = "fetched"
    /\ UNCHANGED <<self, signal, raised_at, printed, df>>

\* the last row of calculate_indicators(stock_df)
Enrich(bar, w) ==
    [high  |-> bar.high,
     low   |-> bar.low,
     close |-> bar.close,
     MA5   |-> w.MA5,
     MA20  |-> w.MA20,
     MA60  |-> w.MA60,
     ATR   |-> w.ATR,
     RSI   |-> w.RSI,
     Pivot |-> Pivot(bar),
     S1    |-> S1(bar),
     R1    |-> R1(bar)]

Compute ==
    /\ pc = "fetched"
    /\ IF Len(stock_df) = 0
         THEN stock_df' = stock_df
         ELSE \E w \in Windows : stock_df' = <<Enrich(stock_df[Len(stock_df)], w)>>
    /\ pc' = "computed"
    /\ UNCHANGED <<self, signal, raised_at, printed, df>>

\* stock_data.iloc[-1] raises IndexError on a table without rows
SignalFails ==
    /\ pc = "computed"
    /\ Len(stock_df) = 0
    /\ pc' = "except"
    /\ raised_at' = "signal"
    /\ UNCHANGED <<self, signal, stock_df, printed, df>>

Signal ==
    /\ pc = "computed"
    /\ Len(stock_df) > 0
    /\ signal' = GenerateDailySignal(stock_df[Len(stock_df)], position, last_trade_price)
    /\ pc' = "signalled"
    /\ UNCHANGED <<self, stock_df, raised_at, printed, df>>

Execute ==
    /\ pc = "signalled"
    /\ ExecuteTrade(signal)
    /\ pc' = "executed"
    /\ UNCHANGED <<signal, stock_df, raised_at, printed, df>>

\* the lines printed before the one that reads signal['reason']
ReportHead(d) ==
    <<"banner", "date", "close", "action", "price">>
        \o (IF HasKey(d, "stop_loss") THEN <<"stop_loss">> ELSE <<>>)
        \o (IF HasKey(d, "target") THEN <<"target">> ELSE <<>>)

Report ==
    /\ pc = "executed"
    /\ HasKey(signal, "reason")
    /\ printed' = ReportHead(signal) \o <<"reason", "banner">>
    /\ pc' = "done"
    /\ UNCHANGED <<self, signal, stock_df, raised_at, df>>

\* signal['reason'] raises KeyError on a decision without that key
ReportFails ==
    /\ pc = "executed"
    /\ ~HasKey(signal, "reason")
    /\ printed' = ReportHead(signal)
    /\ pc' = "except"
    /\ raised_at' = "report"
    /\ UNCHANGED <<self, signal, stock_df, df>>

Handler ==
    /\ pc = "except"
    /\ printed' = Append(printed, "exception")
    /\ pc' = "done"
    /\ UNCHANGED <<self, signal, stock_df, raised_at, df>>

\* run_daily_strategy returns; its locals are gone
Return ==
    /\ pc = "done"
    /\ pc' = "idle"
    /\ signal' = NoSignal
    /\ stock_df' = <<>>
    /\ raised_at' = ""
    /\ printed' = <<>>
    /\ UNCHANGED <<self, df>>

Next ==
    \/ FetchFails
    \/ Fetch
    \/ Compute
    \/ SignalFails
    \/ Signal
    \/ Execute
    \/ Report
    \/ ReportFails
    \/ Handler
    \/ Return

Spec == Init /\ [][Next]_vars

(***************************************************************************)
(* execute_trade called directly, with any decision in any state           *)
(***************************************************************************)
ExecuteTradeCall ==
    /\ Len(trade_log) < MaxCalls
    /\ \E d \in Decisions :
          /\ signal' = d
          /\ ExecuteTrade(d)
    /\ UNCHANGED <<pc, stock_df, raised_at, printed, df>>

NextTrade == ExecuteTradeCall

SpecTrade == Init /\ [][NextTrade]_vars

(***************************************************************************)
(* calculate_indicators called directly, on any table of 1..MaxBars bars   *)
(***************************************************************************)
InitInd ==
    /\ position = 0
    /\ last_trade_price = None
    /\ trade_log = <<>>
    /\ clock = 0
    /\ signal = NoSignal
    /\ pc = "idle"
    /\ stock_df = <<>>
    /\ raised_at = ""
    /\ printed = <<>>
    /\ \E n \in 1..MaxBars : df \in Tables(n)

CalculateIndicatorsCall ==
    /\ ~HasKey(df[1], "RSI")
    /\ df' = CalculateIndicators(df)
    /\ UNCHANGED <<self, signal, pc, stock_df, raised_at, printed>>

NextInd == CalculateIndicatorsCall

SpecInd == InitInd /\ [][NextInd]_vars

(***************************************************************************)
(* Properties                                                              *)
(***************************************************************************)
Last(q) == q[Len(q)]

\* the row generate_daily_signal read in the current cycle
LatestRow == stock_df[Len(stock_df)]

\* C1: after any sequence of execute_trade calls with buy, sell and hold
\* decisions, last_trade_price is set exactly when the position is long.
C1_PriceSetIffLong == (last_trade_price # None) <=> (position = 1)

C1_Witness ==
    /\ position = 1
    /\ last_trade_price # None
    /\ \E i \in 1..Len(trade_log) : trade_log[i].action = "sell" /\ trade_log[i].position = 1

\* C2: every execute_trade call appends exactly one entry holding the decision's
\* action and price and the position held before the call, and leaves the
\* earlier entries as they were.
C2_AppendsOneEntry ==
    [][/\ Len(trade_log') = Len(trade_log) + 1
       /\ SubSeq(trade_log', 1, Len(trade_log)) = trade_log
       /\ Last(trade_log').action = signal'.action
       /\ Last(trade_log').price = Some(signal'.price)
       /\ Last(trade_log').position = position]_vars

C2_Witness ==
    /\ Len(trade_log) = 3
    /\ trade_log[1].action = "buy" /\ trade_log[1].position = 0
    /\ trade_log[2].action = "hold" /\ trade_log[2].position = 1
    /\ trade_log[3].action = "sell" /\ trade_log[3].position = 1

\* C3: a buy applied to the flat state followed by a sell leaves the state flat
\* with no last_trade_price.
C3_BuyThenSellRoundTrip ==
    \A i \in 1..Len(trade_log) :
        (/\ i + 1 = Len(trade_log)
         /\ trade_log[i].action = "buy"
         /\ trade_log[i].position = 0
         /\ trade_log[i + 1].action = "sell")
        => (position = 0 /\ last_trade_price = None)

C3_Witness ==
    /\ Len(trade_log) = 2
    /\ trade_log[1].action = "buy" /\ trade_log[1].position = 0
    /\ trade_log[2].action = "sell" /\ trade_log[2].position = 1
    /\ trade_log[1].price # trade_log[2].price
    /\ position = 0

\* C4: an execute_trade call with a hold decision changes neither position nor
\* last_trade_price, in the flat and in the long state alike.
C4_HoldChangesNothing ==
    [][signal'.action = "hold"
        => (position' = position /\ last_trade_price' = last_trade_price)]_vars

C4_Witness ==
    /\ Len(trade_log) = 4
    /\ trade_log[1].action = "hold" /\ trade_log[1].position = 0
    /\ trade_log[2].action = "buy"
    /\ trade_log[3].action = "hold" /\ trade_log[3].position = 1
    /\ trade_log[4].action = "hold" /\ trade_log[4].position = 1
    /\ last_trade_price = trade_log[2].price

\* the flat state read a row with MA5 > MA20 > MA60 and RSI < 70
C5_Case ==
    /\ pc = "signalled"
    /\ position = 0
    /\ Gt(LatestRow.MA5, LatestRow.MA20)
    /\ Gt(LatestRow.MA20, LatestRow.MA60)
    /\ Lt(LatestRow.RSI, Num(70))

C5_Entry == PyMin(Mul(LatestRow.close, Rat(995, 1000)), LatestRow.S1)

\* C5 as stated: the buy is priced at min(close*0.995, S1) itself, and its
\* stop_loss and target are the emitted price less 2*ATR and plus 3*ATR.
C5_LevelsFromEmittedPrice ==
    C5_Case =>
        /\ signal.action = "buy"
        /\ signal.price = C5_Entry
        /\ signal.stop_loss = Sub(signal.price, Mul(Num(2), LatestRow.ATR))
        /\ signal.target = Add(signal.price, Mul(Num(3), LatestRow.ATR))

\* C5 as amended: with m = min(close*0.995, S1), the buy carries price
\* round(m, 2), stop_loss round(m - 2*ATR, 2) and target round(m + 3*ATR, 2).
C5_LevelsRoundedFromEntry ==
    C5_Case =>
        /\ signal.action = "buy"
        /\ signal.price = Round2(C5_Entry)
        /\ signal.stop_loss = Round2(Sub(C5_Entry, Mul(Num(2), LatestRow.ATR)))
        /\ signal.target = Round2(Add(C5_Entry, Mul(Num(3), LatestRow.ATR)))

C5_Witness ==
    /\ C5_Case
    /\ signal.action = "buy"
    /\ C5_Entry = LatestRow.S1
    /\ signal.price # C5_Entry
    /\ signal.stop_loss # Sub(signal.price, Mul(Num(2), LatestRow.ATR))

C6_Return == Div(Sub(LatestRow.close, last_trade_price[1]), last_trade_price[1])

\* C6: in the long state the decision is a take-profit sell at close*1.005 when
\* the return exceeds 0.03 or RSI exceeds 70, else a stop-loss sell at
\* close*0.995 when the return is below -0.02, else a hold at close; it is
\* never a buy.
C6_LongPriority ==
    (pc = "signalled" /\ position = 1) =>
        /\ signal.action # "buy"
        /\ IF Gt(C6_Return, Rat(3, 100)) \/ Gt(LatestRow.RSI, Num(70))
           THEN signal = [action |-> "sell",
                          price  |-> Mul(LatestRow.close, Rat(1005, 1000)),
                          reason |-> "take-profit/overbought"]
           ELSE IF Lt(C6_Return, Rat(-2, 100))
           THEN signal = [action |-> "sell",
                          price  |-> Mul(LatestRow.close, Rat(995, 1000)),
                          reason |-> "stop-loss"]
           ELSE signal = [action |-> "hold",
                          price  |-> LatestRow.close,
                          reason |-> "hold position"]

\* a return below -0.02 with RSI above 70: the take-profit branch wins
C6_Witness ==
    /\ pc = "signalled"
    /\ position = 1
    /\ Lt(C6_Return, Rat(-2, 100))
    /\ Gt(LatestRow.RSI, Num(70))
    /\ signal.reason = "take-profit/overbought"

MissingIndicator(row) ==
    \E c \in {"MA5", "MA20", "MA60", "RSI", "ATR", "S1"} : IsNaN(row[c])

\* C7: generate_daily_signal returns no decision, and execute_trade applies
\* none, for a last row that lacks MA5, MA20, MA60, RSI, ATR or S1.
C7_NoDecisionFromMissingIndicator ==
    pc \in {"signalled", "executed"} => ~MissingIndicator(LatestRow)

\* C8: a row of calculate_indicators whose smoothed average loss is zero has
\* RSI = 100, the first row and the rows of constant closes included.
C8_ZeroLossGivesRSI100 ==
    HasKey(df[1], "RSI") =>
        \A i \in 1..Len(df) : IsZero(AvgLoss(df, i)) => df[i].RSI = Num(100)

\* C9: the exception handler of run_daily_strategy is entered only from a
\* failed fetch, indicator computation or signal generation, so never after
\* execute_trade has run: the report of every decision completes.
C9_HandlerOnlyBeforeMutation ==
    pc = "except" => raised_at \in {"fetch", "compute", "signal"}

\* C10: when every decision applied comes from generate_daily_signal on the
\* current state, each buy is logged with position 0 and each hold with
\* position 1, and last_trade_price changes only when a buy takes the flat
\* state long (to the buy's price) or a sell takes the long state flat (to None).
C10_NoReentry ==
    [][/\ \A i \in 1..Len(trade_log') :
            /\ trade_log'[i].action = "buy" => trade_log'[i].position = 0
            /\ trade_log'[i].action = "hold" => trade_log'[i].position = 1
       /\ last_trade_price' # last_trade_price =>
            \/ /\ position = 0
               /\ position' = 1
               /\ signal.action = "buy"
               /\ last_trade_price' = Some(signal.price)
            \/ /\ position = 1
               /\ position' = 0
               /\ last_trade_price' = None]_vars

C10_Witness ==
    /\ Len(trade_log) = 3
    /\ trade_log[1].action = "buy"
    /\ trade_log[2].action = "hold"
    /\ trade_log[3].action = "sell"
    /\ last_trade_price = None

====
